---- MODULE Spec2Model ----
(***************************************************************************)
(* A model of sam9boot (src/sam9boot.c): the host-side client of the SAM9  *)
(* RomBOOT monitor.  Bytes and characters are ASCII codes (0..255).  A     *)
(* bit32 is a record [hi, lo] of two 16-bit halves, so that every 32-bit   *)
(* operation keeps its width while staying inside TLC's integers.          *)
(***************************************************************************)
EXTENDS Integers, Sequences, FiniteSets, TLC

VARIABLES
    pc,            \* position of the program
    cfg,           \* the command line and the host environment of this run
    ValueBytes,    \* static bit32 ValueBytes (a small natural here)
    Success,       \* main's bool Success
    ResponseCount, \* static bit32 ResponseCount
    Value,         \* the value returned by the latest GetResponse
    MemoryCount,   \* static bit32 MemoryCount
    MemoryBuffer,  \* static bptr MemoryBuffer, the bytes stored so far
    FileBuffer,    \* static bptr FileBuffer
    Address,       \* local Address of the running transfer or dump
    Length,        \* local Length of the running transfer
    Chunk,         \* local Chunk of the running transfer
    vi,            \* verify's loop index i
    diag,          \* the diagnostics printed so far, in order
    outFile,       \* what receive wrote to the host file
    Offset,        \* dump's local Offset
    dumpRows,      \* the rows dump printed, in order
    Key,           \* TerminalEmulator's local Key
    conIn,         \* keystrokes the operator has still to type
    conOut,        \* bytes TerminalEmulator wrote to the console
    wire,          \* every byte written to the target, in order
    rx,            \* bytes the target sent that the host has not read yet
    tmem,          \* the simulated target's memory window
    tgt,           \* the simulated target's bookkeeping
    xlog,          \* one record per command/response exchange
    cycle,         \* what TerminalEmulator's current do-while cycle has done
    exitCode       \* the process exit code, -1 while running

vars ==
    << pc, cfg, ValueBytes, Success, ResponseCount, Value, MemoryCount,
       MemoryBuffer, FileBuffer, Address, Length, Chunk, vi, diag, outFile,
       Offset, dumpRows, Key, conIn, conOut, wire, rx, tmem, tgt, xlog,
       cycle, exitCode >>

-----------------------------------------------------------------------------
(* Sequences *)

Take(s, n) ==
    SubSeq(s, 1, IF n < Len(s) THEN n ELSE Len(s))

Drop(s, n) ==
    SubSeq(s, n + 1, Len(s))

Max(a, b) ==
    IF a < b THEN b ELSE a

-----------------------------------------------------------------------------
(* bit32: unsigned 32-bit arithmetic on [hi, lo] *)

Half ==
    256 * 256

W32(n) ==
    [hi |-> (n \div Half) % Half, lo |-> n % Half]

Zero32 ==
    W32(0)

Max32 ==
    [hi |-> Half - 1, lo |-> Half - 1]

\* w + n for a small natural n, modulo 2^32 (Address += Chunk)
Add32(w, n) ==
    LET s == w.lo + n
    IN  [hi |-> (w.hi + s \div Half) % Half, lo |-> s % Half]

\* Value & 0xff
LowByte(w) ==
    w.lo % 256

\* Value >>= 8
Shr8(w) ==
    [hi |-> w.hi \div 256, lo |-> (w.hi % 256) * 256 + w.lo \div 256]

\* (w << 4) | d, modulo 2^32: one more hexadecimal digit
Shl4Add(w, d) ==
    [hi |-> ((w.hi % 4096) * 16) + w.lo \div 4096,
     lo |-> ((w.lo % 4096) * 16) + d]

\* -w modulo 2^32
Neg32(w) ==
    [hi |-> (Half - w.hi - (IF w.lo = 0 THEN 0 ELSE 1)) % Half,
     lo |-> (Half - w.lo) % Half]

\* nibble k of w, k = 0 the least significant
Nibble(w, k) ==
    LET h == IF k < 4 THEN w.lo ELSE w.hi
        j == k % 4
    IN  (h \div (IF j = 0 THEN 1 ELSE IF j = 1 THEN 16 ELSE IF j = 2 THEN 256 ELSE 4096)) % 16

\* byte i of w, i = 0 the least significant
Lane(w, i) ==
    Nibble(w, 2 * i + 1) * 16 + Nibble(w, 2 * i)

RECURSIVE BitOr(_, _)
BitOr(a, b) ==
    IF a = 0 THEN b
    ELSE IF b = 0 THEN a
    ELSE 2 * BitOr(a \div 2, b \div 2) + (IF a % 2 = 1 \/ b % 2 = 1 THEN 1 ELSE 0)

\* w with v added into byte i
AddLane(w, i, v) ==
    IF i = 0 THEN [w EXCEPT !.lo = @ + v]
    ELSE IF i = 1 THEN [w EXCEPT !.lo = @ + 256 * v]
    ELSE IF i = 2 THEN [w EXCEPT !.hi = @ + v]
    ELSE [w EXCEPT !.hi = @ + 256 * v]

\* Value | (b << (i*8)) for a byte b
OrShl(w, b, i) ==
    AddLane(w, i, BitOr(Lane(w, i), b) - Lane(w, i))

-----------------------------------------------------------------------------
(* Characters *)

Printable ==
    << " ", "!", "\"", "#", "$", "%", "&", "'", "(", ")", "*", "+", ",", "-", ".", "/",
       "0", "1", "2", "3", "4", "5", "6", "7", "8", "9", ":", ";", "<", "=", ">", "?",
       "@", "A", "B", "C", "D", "E", "F", "G", "H", "I", "J", "K", "L", "M", "N", "O",
       "P", "Q", "R", "S", "T", "U", "V", "W", "X", "Y", "Z", "[", "\\", "]", "^", "_",
       "grave", "a", "b", "c", "d", "e", "f", "g", "h", "i", "j", "k", "l", "m", "n", "o",
       "p", "q", "r", "s", "t", "u", "v", "w", "x", "y", "z", "{", "|", "}", "~" >>

\* the ASCII code of a one-character string
Asc(c) ==
    31 + (CHOOSE i \in 1..Len(Printable) : Printable[i] = c)

\* the ASCII codes of a tuple of one-character strings
Codes(t) ==
    [i \in 1..Len(t) |-> Asc(t[i])]

\* '\n'
LF == 10

\* '\r'
CR == 13

\* isspace: ' ' and '\t' .. '\r'
IsSpace(c) ==
    c = 32 \/ (c >= 9 /\ c <= 13)

\* '0'..'9', 'A'..'F', 'a'..'f'
IsHexDigit(c) ==
    \/ (c >= 48 /\ c <= 57)
    \/ (c >= 65 /\ c <= 70)
    \/ (c >= 97 /\ c <= 102)

HexVal(c) ==
    IF c <= 57 THEN c - 48
    ELSE IF c <= 70 THEN c - 65 + 10
    ELSE c - 97 + 10

HexChar(d, upper) ==
    IF d < 10 THEN 48 + d
    ELSE IF upper THEN 65 + d - 10
    ELSE 97 + d - 10

\* the number of hexadecimal digits of w without leading zeros, at least 1
HexWidth(w) ==
    IF w = Zero32 THEN 1
    ELSE CHOOSE n \in 1..8 :
            /\ Nibble(w, n - 1) # 0
            /\ \A k \in n..7 : Nibble(w, k) = 0

\* the m low hexadecimal digits of w, most significant first
HexDigits(w, m, upper) ==
    [i \in 1..m |-> HexChar(Nibble(w, m - i), upper)]

\* printf's %<n>.<n>X (upper) and %<n>.<n>x: at least n digits, zero padded
HexFmt(w, n, upper) ==
    HexDigits(w, Max(n, HexWidth(w)), upper)

-----------------------------------------------------------------------------
(* sscanf( ..., "%X", &Value) *)

\* the C string that starts s: the bytes before the first NUL
CStr(s) ==
    IF \E i \in 1..Len(s) : s[i] = 0
    THEN Take(s, (CHOOSE i \in 1..Len(s) : s[i] = 0 /\ \A j \in 1..(i - 1) : s[j] # 0) - 1)
    ELSE s

\* whether c is of the class cls: "space", "hex" or "zero"
InClass(c, cls) ==
    CASE cls = "space" -> IsSpace(c)
      [] cls = "hex" -> IsHexDigit(c)
      [] OTHER -> c = 48

\* the number of leading elements of s that are of the class cls
LeadCount(s, cls) ==
    IF \A i \in 1..Len(s) : InClass(s[i], cls) THEN Len(s)
    ELSE (CHOOSE i \in 1..Len(s) :
            ~InClass(s[i], cls) /\ \A j \in 1..(i - 1) : InClass(s[j], cls)) - 1

RECURSIVE HexAccum(_, _)
HexAccum(digs, acc) ==
    IF digs = << >> THEN acc
    ELSE HexAccum(Tail(digs), Shl4Add(acc, HexVal(Head(digs))))

\* the 64-bit strtoul result stored into an unsigned int: the low 32 bits, or
\* ULONG_MAX's low 32 bits when more than 16 significant digits overflow it
StrToUL(digs, neg) ==
    IF Len(digs) - LeadCount(digs, "zero") > 16 THEN Max32
    ELSE IF neg THEN Neg32(HexAccum(digs, Zero32))
    ELSE HexAccum(digs, Zero32)

\* the digits of the number: converted if there is a digit (the 0 of "0x" is one)
SscanfDigits(s, pre, neg) ==
    [ok |-> pre \/ LeadCount(s, "hex") > 0,
     val |-> StrToUL(Take(s, LeadCount(s, "hex")), neg)]

\* "0x" or "0X" starts s
HasPrefix(s) ==
    Len(s) >= 2 /\ s[1] = 48 /\ s[2] \in {120, 88}

\* the number after its sign: an optional "0x", then the digits
SscanfUnsigned(s, neg) ==
    SscanfDigits(IF HasPrefix(s) THEN Drop(s, 2) ELSE s, HasPrefix(s), neg)

\* '+' or '-' starts s
HasSign(s) ==
    s # << >> /\ s[1] \in {43, 45}

\* the number after the white space: an optional sign, then the rest
SscanfSigned(s) ==
    SscanfUnsigned(IF HasSign(s) THEN Tail(s) ELSE s, HasSign(s) /\ s[1] = 45)

\* [ok, val]: whether a value was converted, and the value
Sscanf(str) ==
    SscanfSigned(Drop(CStr(str), LeadCount(CStr(str), "space")))

-----------------------------------------------------------------------------
(* GetResponse *)

ResponseSize == 32

\* Value after the sscanf result r
Scanned(r, Val) ==
    IF r.ok THEN r.val ELSE Val

\* the switch of GetResponse's for loop, from index i (1-based) on; '0' is 48
\* and 'x' is 120
RECURSIVE ScanLoop(_, _, _, _)
ScanLoop(Response, i, State, Val) ==
    IF i > Len(Response) THEN Val
    ELSE CASE State = 0 ->
                ScanLoop(Response, i + 1, IF Response[i] = 48 THEN 1 ELSE 0, Val)
           [] State = 1 ->
                ScanLoop(Response, i + 1, IF Response[i] = 120 THEN 2 ELSE 0, Val)
           [] State = 2 ->
                ScanLoop(Response, i + 1, 3,
                         Scanned(Sscanf(SubSeq(Response, i, Len(Response))), Val))
           [] OTHER ->
                ScanLoop(Response, i + 1, State, Val)

\* what GetResponse returns for the burst Response read out of avail
Captured(Response, avail) ==
    [Response |-> Response,
     Value |-> ScanLoop(Response, 1, 0, Zero32),
     ResponseCount |-> Len(Response),
     rest |-> Drop(avail, Len(Response))]

\* GetResponse on the bytes that are readable during this capture:
\* the burst read, the value returned, ResponseCount, and the bytes left unread
GetResponse(avail) ==
    Captured(Take(avail, ResponseSize - 2), avail)

-----------------------------------------------------------------------------
(* The command line (ParseParameters' results) and the host environment *)

FlagReceive == cfg.FlagReceive
FlagDump == cfg.FlagDump
FlagSend == cfg.FlagSend
FlagCpu == cfg.FlagCpu
FlagVerify == cfg.FlagVerify
FlagQuiet == cfg.FlagQuiet
FlagInteractive == cfg.FlagInteractive
\* ParamFileName, ParamAddrGo, ParamBytes: << >> for NULL, else <<value>>
ParamFileName == cfg.ParamFileName
ParamAddrGo == cfg.ParamAddrGo
ParamBytes == cfg.ParamBytes
ValueAddrStart == cfg.ValueAddrStart
ValueAddrGo == IF cfg.ParamAddrGo = << >> THEN Zero32 ELSE cfg.ParamAddrGo[1]

-----------------------------------------------------------------------------
(* Bounds *)

\* the largest byte count and file length of a transfer
MaxCount == 7

\* the largest byte count of a dumped image
MaxDump == 17

\* how many times the simulated target may misbehave in one run
MaxFaults == 1

\* the size of the simulated target's memory window, which starts at ValueAddrStart
MemWin ==
    Max(MaxCount, MaxDump) + 4

-----------------------------------------------------------------------------
(* CommandEncoder: the fprintf formats *)

\* "#\n"
CmdIdentify ==
    << Asc("#"), LF >>

\* "V#\n"
CmdVersion ==
    << Asc("V"), Asc("#"), LF >>

\* "wfffff240,4#\n"
CmdCpu ==
    Codes(<< "w", "f", "f", "f", "f", "f", "2", "4", "0", ",", "4", "#" >>) \o << LF >>

\* "o%5.5X,1#\n"
CmdReadByte(A) ==
    << Asc("o") >> \o HexFmt(A, 5, TRUE) \o Codes(<< ",", "1", "#" >>) \o << LF >>

\* "w%5.5X,4#\n"
CmdReadWord(A) ==
    << Asc("w") >> \o HexFmt(A, 5, TRUE) \o Codes(<< ",", "4", "#" >>) \o << LF >>

\* "O%5.5X,%2.2X#\n"
CmdWriteByte(A, V) ==
    << Asc("O") >> \o HexFmt(A, 5, TRUE) \o << Asc(",") >> \o HexFmt(V, 2, TRUE)
        \o << Asc("#"), LF >>

\* "W%5.5X,%8.8X#\n"
CmdWriteWord(A, V) ==
    << Asc("W") >> \o HexFmt(A, 5, TRUE) \o << Asc(",") >> \o HexFmt(V, 8, TRUE)
        \o << Asc("#"), LF >>

\* "G%X#\n"
CmdGo(A) ==
    << Asc("G") >> \o HexFmt(A, 1, TRUE) \o << Asc("#"), LF >>

-----------------------------------------------------------------------------
(* The simulated target: a memory behind the monitor's command set (spec 6) *)

\* the offset of address a in the memory window, -1 outside it
Off(a) ==
    IF \E k \in 0..(MemWin - 1) : Add32(ValueAddrStart, k) = a
    THEN CHOOSE k \in 0..(MemWin - 1) : Add32(ValueAddrStart, k) = a
    ELSE -1

MemByte(mem, a) ==
    IF Off(a) < 0 THEN 0 ELSE mem[Off(a) + 1]

\* the byte of a read of `width` bytes at a that lands in byte i of the register
ReadLane(mem, a, width, i) ==
    IF i < width THEN MemByte(mem, Add32(a, i)) ELSE 0

\* the register value of a read of `width` bytes at a: little-endian
MemRead(mem, a, width) ==
    [hi |-> ReadLane(mem, a, width, 3) * 256 + ReadLane(mem, a, width, 2),
     lo |-> ReadLane(mem, a, width, 1) * 256 + ReadLane(mem, a, width, 0)]

MemWrite(mem, a, width, v) ==
    [k \in 1..Len(mem) |->
        IF \E i \in 0..(width - 1) : Off(Add32(a, i)) = k - 1
        THEN Lane(v, CHOOSE i \in 0..(width - 1) : Off(Add32(a, i)) = k - 1)
        ELSE mem[k]]

\* the chip id register the cpu query reads (DBGU_CIDR at 0xfffff240)
ChipIdAddr ==
    [hi |-> Half - 1, lo |-> Half - 3520]

ChipId ==
    [hi |-> 408, lo |-> 928]

\* "\n\r>"
Prompt ==
    << LF, CR, Asc(">") >>

\* "\n\r0x<digits>\n\r>"
ReplyValue(v, digits) ==
    << LF, CR, Asc("0"), Asc("x") >> \o HexFmt(v, digits, TRUE) \o Prompt

\* the number of elements of s before the first c
Before(s, c) ==
    IF \E i \in 1..Len(s) : s[i] = c
    THEN (CHOOSE i \in 1..Len(s) : s[i] = c /\ \A j \in 1..(i - 1) : s[j] # c) - 1
    ELSE Len(s)

\* the target's answer to a read that gave reg
ReadReply(reg, digits, mem) ==
    [reply |-> ReplyValue(reg, digits), mem |-> mem, reg |-> reg]

\* the target's reaction to the command op with the fields a and v
React(op, a, v, mem) ==
    CASE op = Asc("w") ->
            ReadReply(IF a = ChipIdAddr THEN ChipId ELSE MemRead(mem, a, 4), 8, mem)
      [] op = Asc("o") ->
            ReadReply(MemRead(mem, a, 1), 2, mem)
      [] op = Asc("W") ->
            [reply |-> Prompt, mem |-> MemWrite(mem, a, 4, v), reg |-> v]
      [] op = Asc("O") ->
            [reply |-> Prompt, mem |-> MemWrite(mem, a, 1, v), reg |-> v]
      [] op = Asc("V") ->
            [reply |-> Codes(<< "v", "1", ".", "4" >>) \o Prompt, mem |-> mem,
             reg |-> Zero32]
      [] op = Asc("#") ->
            [reply |-> << Asc(">") >>, mem |-> mem, reg |-> Zero32]
      [] OTHER ->
            [reply |-> << >>, mem |-> mem, reg |-> Zero32]

\* the reaction to the command op whose fields, before the '#', are body:
\* the address before the ',' and the value after it
ReactFields(op, body, mem) ==
    React(op,
          HexAccum(Take(body, Before(body, Asc(","))), Zero32),
          HexAccum(Drop(body, Before(body, Asc(",")) + 1), Zero32),
          mem)

\* what the target does with one command line: its reply, its memory
\* afterwards, and the register value it read or wrote
TargetReact(cmd, mem) ==
    ReactFields(cmd[1], SubSeq(cmd, 2, Before(cmd, Asc("#"))), mem)

\* how the target may treat the next command: well ("ok"), by sending nothing
\* ("silent"), by sending its prompt without a value ("nomarker"), by
\* answering after the host's poll has timed out ("late"), or by pausing
\* within its answer, ahead of the value, for longer than that poll ("split")
Hows(cmd) ==
    IF cmd = << >> THEN {"none"}
    ELSE IF tgt.mute THEN {"silent"}
    ELSE {"ok"} \cup
         (IF tgt.faults < tgt.budget
          THEN {"silent", "late"} \cup
               (IF cmd[1] \in {Asc("w"), Asc("o")} THEN {"nomarker", "split"} ELSE {})
          ELSE {})

\* the bytes of reply that arrive before the poll of this capture times out
InTime(how, reply) ==
    IF how = "late" THEN << >>
    ELSE IF how = "split" THEN Take(reply, Before(reply, Asc("0")))
    ELSE reply

\* the exchange whose capture returned r, with the bytes `after` of the
\* reply still to arrive
XchgCaptured(phase, cmd, how, t, after, r) ==
    [wire |-> wire \o cmd,
     tmem |-> t.mem,
     rx |-> r.rest \o after,
     Value |-> r.Value,
     ResponseCount |-> r.ResponseCount,
     tgt |-> IF how \in {"ok", "none"} THEN tgt
             ELSE [tgt EXCEPT !.faults = @ + 1],
     entry |-> [phase |-> phase, cmd |-> cmd, how |-> how, reg |-> t.reg,
                stale |-> Len(rx), Response |-> r.Response, Value |-> r.Value]]

\* the exchange in which the target sends reply: in time, too late to be
\* read by this capture, or partly so
XchgReply(phase, cmd, how, t, reply) ==
    XchgCaptured(phase, cmd, how, t, Drop(reply, Len(InTime(how, reply))),
                 GetResponse(rx \o InTime(how, reply)))

\* the exchange in which the target reacts as t
XchgReact(phase, cmd, how, t) ==
    XchgReply(phase, cmd, how, t, IF how = "nomarker" THEN Prompt ELSE t.reply)

\* one exchange: cmd is written to the target (<< >>: nothing is), the target
\* treats it as `how` says, and GetResponse captures one burst
Xchg(phase, cmd, how) ==
    XchgReact(phase, cmd, how,
              IF how \in {"none", "silent"}
              THEN [reply |-> << >>, mem |-> tmem, reg |-> Zero32]
              ELSE TargetReact(cmd, tmem))

\* the state after the exchange x
Exchanged(x) ==
    /\ wire' = x.wire
    /\ tmem' = x.tmem
    /\ rx' = x.rx
    /\ Value' = x.Value
    /\ ResponseCount' = x.ResponseCount
    /\ tgt' = x.tgt
    /\ xlog' = Append(xlog, x.entry)

-----------------------------------------------------------------------------
(* main, up to the file load *)

xvars ==
    << wire, tmem, rx, Value, ResponseCount, tgt, xlog >>

loopvars ==
    << Address, Length, Chunk >>

termvars ==
    << Key, conIn, conOut, cycle >>

Diag(msg, arg) ==
    [msg |-> msg, arg |-> arg]

\* a cycle of TerminalEmulator's loop in which nothing has been read yet
NewCycle ==
    [read |-> << >>, drained |-> 0]

\* ParseParameters' checks once every argument has been read
ParseParameters ==
    /\ cfg.argsOK
    /\ cfg.portOK
    /\ ~((FlagReceive \/ FlagSend) /\ ParamFileName = << >>)
    /\ ~(FlagReceive /\ FlagSend)
    /\ ~(ParamBytes # << >> /\ ParamBytes[1] = 0)

\* main's first lines: the usage text, or ParseParameters
Main ==
    /\ pc = "main"
    /\ IF cfg.argc > 1
       THEN IF ParseParameters
            THEN /\ pc' = "open"
                 /\ ValueBytes' = IF ParamBytes # << >> THEN ParamBytes[1] ELSE ValueBytes
                 /\ UNCHANGED diag
            ELSE /\ pc' = "exit"
                 /\ diag' = Append(diag, Diag("invalid parameter", 0))
                 /\ UNCHANGED ValueBytes
       ELSE /\ pc' = "exit"
            /\ UNCHANGED << ValueBytes, diag >>
    /\ UNCHANGED << cfg, Success, MemoryCount, MemoryBuffer, FileBuffer, loopvars, vi,
                    outFile, Offset, dumpRows, termvars, xvars, exitCode >>

\* fopen( ParamPort, "a+b")
OpenDevice ==
    /\ pc = "open"
    /\ IF cfg.deviceOK
       THEN pc' = "hello" /\ UNCHANGED diag
       ELSE pc' = "exit" /\ diag' = Append(diag, Diag("open device", 0))
    /\ UNCHANGED << cfg, ValueBytes, Success, MemoryCount, MemoryBuffer, FileBuffer,
                    loopvars, vi, outFile, Offset, dumpRows, termvars, xvars, exitCode >>

\* "#\n" and its GetResponse
Hello ==
    /\ pc = "hello"
    /\ \E how \in Hows(CmdIdentify) : Exchanged(Xchg("hello", CmdIdentify, how))
    /\ pc' = "version"
    /\ UNCHANGED << cfg, ValueBytes, Success, MemoryCount, MemoryBuffer, FileBuffer,
                    loopvars, vi, diag, outFile, Offset, dumpRows, termvars, exitCode >>

\* "V#\n" and its GetResponse, unless quiet
Version ==
    /\ pc = "version"
    /\ IF FlagQuiet = FALSE
       THEN \E how \in Hows(CmdVersion) : Exchanged(Xchg("version", CmdVersion, how))
       ELSE UNCHANGED xvars
    /\ pc' = "cpu"
    /\ UNCHANGED << cfg, ValueBytes, Success, MemoryCount, MemoryBuffer, FileBuffer,
                    loopvars, vi, diag, outFile, Offset, dumpRows, termvars, exitCode >>

\* the cpu section after the exchange x
CpuGot(x) ==
    /\ Exchanged(x)
    /\ IF x.ResponseCount # 0
       THEN UNCHANGED << Success, diag >>
       ELSE /\ Success' = FALSE
            /\ diag' = Append(diag, Diag("cpu unresponsive", 0))

\* the cpu part id query
Cpu ==
    /\ pc = "cpu"
    /\ IF FlagCpu
       THEN \E how \in Hows(CmdCpu) : CpuGot(Xchg("cpu", CmdCpu, how))
       ELSE UNCHANGED << xvars, Success, diag >>
    /\ pc' = "flush"
    /\ UNCHANGED << cfg, ValueBytes, MemoryCount, MemoryBuffer, FileBuffer, loopvars, vi,
                    outFile, Offset, dumpRows, termvars, exitCode >>

\* the GetResponse that follows the cpu section
Flush ==
    /\ pc = "flush"
    /\ Exchanged(Xchg("flush", << >>, "none"))
    /\ pc' = "loadfile"
    /\ UNCHANGED << cfg, ValueBytes, Success, MemoryCount, MemoryBuffer, FileBuffer,
                    loopvars, vi, diag, outFile, Offset, dumpRows, termvars, exitCode >>

\* LoadFile once the file is open and not empty, to read n bytes
LoadBytes(bytes, n) ==
    IF Len(bytes) >= n
    THEN [ok |-> TRUE, ValueBytes |-> n, FileBuffer |-> Take(bytes, n), msg |-> "loaded"]
    ELSE [ok |-> FALSE, ValueBytes |-> n,
          FileBuffer |-> bytes \o [i \in 1..(n - Len(bytes)) |-> 0],
          msg |-> "load read error"]

\* LoadFile: [ok, ValueBytes, FileBuffer, msg]
LoadFile ==
    IF ~cfg.disk.open
    THEN [ok |-> FALSE, ValueBytes |-> ValueBytes, FileBuffer |-> FileBuffer,
          msg |-> "load open error"]
    ELSE IF Len(cfg.disk.bytes) = 0
    THEN [ok |-> FALSE, ValueBytes |-> ValueBytes, FileBuffer |-> FileBuffer,
          msg |-> "load zero length"]
    ELSE LoadBytes(cfg.disk.bytes, IF ValueBytes = 0 THEN Len(cfg.disk.bytes) ELSE ValueBytes)

\* main after LoadFile returned r
Loaded(r) ==
    /\ ValueBytes' = r.ValueBytes
    /\ FileBuffer' = r.FileBuffer
    /\ Success' = r.ok
    /\ diag' = IF r.ok THEN diag ELSE Append(diag, Diag(r.msg, 0))

\* send/verify - load file image
LoadFileStep ==
    /\ pc = "loadfile"
    /\ IF Success /\ (FlagSend \/ FlagVerify)
       THEN IF ParamFileName # << >>
            THEN Loaded(LoadFile)
            ELSE /\ Success' = FALSE
                 /\ diag' = Append(diag, Diag("-s and -v require -f", 0))
                 /\ UNCHANGED << ValueBytes, FileBuffer >>
       ELSE UNCHANGED << ValueBytes, FileBuffer, Success, diag >>
    /\ pc' = "send"
    /\ UNCHANGED << cfg, MemoryCount, MemoryBuffer, loopvars, vi, outFile, Offset,
                    dumpRows, termvars, xvars, exitCode >>

-----------------------------------------------------------------------------
(* send *)

\* the chunk width a transfer of n bytes starts with
FirstChunk(n) ==
    IF n > 3 THEN 4 ELSE 1

\* NextChunk with the switch to single bytes one byte late
NextChunkLate(total, done, chunk) ==
    IF done <= total /\ total - done < 3 THEN 1 ELSE chunk

\* the chunk width once `done` of `total` bytes are through: total - done is
\* unsigned, so it is below 4 only when done has not passed total
NextChunk(total, done, chunk) ==
    IF done <= total /\ total - done < 4 THEN 1 ELSE chunk

\* FileBuffer[pos], 0-based; a read past the buffer yields an arbitrary byte, here 0
FileByte(buf, pos) ==
    IF pos < Len(buf) THEN buf[pos + 1] ELSE 0

\* Pack with the first byte in the most significant position
RECURSIVE PackBig(_, _, _, _, _)
PackBig(buf, pos, i, chunk, acc) ==
    IF i >= chunk THEN acc
    ELSE PackBig(buf, pos + 1, i + 1, chunk, OrShl(acc, FileByte(buf, pos), chunk - 1 - i))

\* Value |= FileBuffer[Length++] << (i*8), for i = 0 .. chunk-1
RECURSIVE Pack(_, _, _, _, _)
Pack(buf, pos, i, chunk, acc) ==
    IF i >= chunk THEN acc
    ELSE Pack(buf, pos + 1, i + 1, chunk, OrShl(acc, FileByte(buf, pos), i))

\* the write command of one chunk
CmdWrite(A, V, chunk) ==
    IF chunk = 1 THEN CmdWriteByte(A, V)
    ELSE IF chunk = 4 THEN CmdWriteWord(A, V)
    ELSE << >>

SendBegin ==
    /\ pc = "send"
    /\ IF Success /\ FlagSend
       THEN /\ Address' = ValueAddrStart
            /\ Length' = 0
            /\ Chunk' = FirstChunk(ValueBytes)
            /\ pc' = "send_loop"
       ELSE /\ pc' = "download"
            /\ UNCHANGED loopvars
    /\ UNCHANGED << cfg, ValueBytes, Success, MemoryCount, MemoryBuffer, FileBuffer, vi,
                    diag, outFile, Offset, dumpRows, termvars, xvars, exitCode >>

\* the command of send's current chunk
SendCmd ==
    CmdWrite(Address, Pack(FileBuffer, Length, 0, Chunk, Zero32), Chunk)

\* SendChunk with the capture checked: no Response ends the upload as failed
SendChunkChecked ==
    /\ pc = "send_loop"
    /\ Length < ValueBytes
    /\ \E how \in Hows(SendCmd) : Exchanged(Xchg("send", SendCmd, how))
    /\ Success' = (ResponseCount' # 0)
    /\ Address' = Add32(Address, Chunk)
    /\ Length' = IF ResponseCount' # 0 THEN Length + Chunk ELSE ValueBytes
    /\ Chunk' = NextChunk(ValueBytes, Length + Chunk, Chunk)
    /\ UNCHANGED << pc, cfg, ValueBytes, MemoryCount, MemoryBuffer, FileBuffer,
                    vi, diag, outFile, Offset, dumpRows, termvars, exitCode >>

\* one iteration of send's while loop
SendChunk ==
    /\ pc = "send_loop"
    /\ Length < ValueBytes
    /\ \E how \in Hows(SendCmd) : Exchanged(Xchg("send", SendCmd, how))
    /\ Address' = Add32(Address, Chunk)
    /\ Length' = Length + Chunk
    /\ Chunk' = NextChunk(ValueBytes, Length + Chunk, Chunk)
    /\ UNCHANGED << pc, cfg, ValueBytes, Success, MemoryCount, MemoryBuffer, FileBuffer,
                    vi, diag, outFile, Offset, dumpRows, termvars, exitCode >>

SendEnd ==
    /\ pc = "send_loop"
    /\ ~(Length < ValueBytes)
    /\ pc' = "download"
    /\ UNCHANGED << cfg, ValueBytes, Success, MemoryCount, MemoryBuffer, FileBuffer,
                    loopvars, vi, diag, outFile, Offset, dumpRows, termvars, xvars,
                    exitCode >>

-----------------------------------------------------------------------------
(* LoadMemory *)

\* Unpack with the most significant byte stored first
UnpackBig(v, n) ==
    [i \in 1..n |-> Lane(v, n - i)]

\* MemoryBuffer[MemoryCount++] = Value & 0xff; Value >>= 8; n times
RECURSIVE Unpack(_, _)
Unpack(v, n) ==
    IF n = 0 THEN << >>
    ELSE << LowByte(v) >> \o Unpack(Shr8(v), n - 1)

\* buf with `bytes` stored from index count (0-based) on
Store(buf, count, bytes) ==
    [k \in 1..Len(buf) |->
        IF k > count /\ k <= count + Len(bytes) THEN bytes[k - count] ELSE buf[k]]

\* the read command of one chunk
CmdRead(A, chunk) ==
    IF chunk = 1 THEN CmdReadByte(A)
    ELSE IF chunk = 4 THEN CmdReadWord(A)
    ELSE << >>

\* verify/recv/dump - load image buffer: the call of LoadMemory and its first lines
LoadMemBegin ==
    /\ pc = "download"
    /\ IF Success /\ (FlagVerify \/ FlagReceive \/ FlagDump)
       THEN IF ValueBytes # 0
            THEN /\ MemoryBuffer' = [k \in 1..ValueBytes |-> 0]
                 /\ Address' = ValueAddrStart
                 /\ Length' = 0
                 /\ Chunk' = FirstChunk(ValueBytes)
                 /\ pc' = "lm_loop"
                 /\ UNCHANGED << Success, diag >>
            ELSE /\ Success' = FALSE
                 /\ diag' = Append(diag, Diag("-d requires -n", 0))
                 /\ pc' = "verify"
                 /\ UNCHANGED << MemoryBuffer, loopvars >>
       ELSE /\ pc' = "verify"
            /\ UNCHANGED << MemoryBuffer, loopvars, Success, diag >>
    /\ UNCHANGED << cfg, ValueBytes, MemoryCount, FileBuffer, vi, outFile, Offset,
                    dumpRows, termvars, xvars, exitCode >>

\* LoadMemGot without the test of ResponseCount
LoadMemGotUnchecked(x) ==
    /\ Exchanged(x)
    /\ MemoryBuffer' = Store(MemoryBuffer, MemoryCount, Unpack(x.Value, Chunk))
    /\ MemoryCount' = MemoryCount + Chunk
    /\ Address' = Add32(Address, Chunk)
    /\ Length' = Length + Chunk
    /\ Chunk' = NextChunk(ValueBytes, Length + Chunk, Chunk)
    /\ UNCHANGED << pc, Success, diag >>

\* LoadMemory after the exchange x of one chunk
LoadMemGot(x) ==
    /\ Exchanged(x)
    /\ IF x.ResponseCount # 0
       THEN /\ MemoryBuffer' = Store(MemoryBuffer, MemoryCount, Unpack(x.Value, Chunk))
            /\ MemoryCount' = MemoryCount + Chunk
            /\ Address' = Add32(Address, Chunk)
            /\ Length' = Length + Chunk
            /\ Chunk' = NextChunk(ValueBytes, Length + Chunk, Chunk)
            /\ UNCHANGED << pc, Success, diag >>
       ELSE /\ diag' = Append(diag, Diag("download unresponsive", MemoryCount))
            /\ Success' = FALSE
            /\ pc' = "verify"
            /\ UNCHANGED << MemoryBuffer, MemoryCount, loopvars >>

\* one iteration of LoadMemory's while loop
LoadMemChunk ==
    /\ pc = "lm_loop"
    /\ Length < ValueBytes
    /\ \E how \in Hows(CmdRead(Address, Chunk)) :
            LoadMemGot(Xchg("download", CmdRead(Address, Chunk), how))
    /\ UNCHANGED << cfg, ValueBytes, FileBuffer, vi, outFile, Offset, dumpRows, termvars,
                    exitCode >>

\* LoadMemory after its loop, and main's use of what it returns
LoadMemEnd ==
    /\ pc = "lm_loop"
    /\ ~(Length < ValueBytes)
    /\ IF MemoryCount = ValueBytes
       THEN UNCHANGED << Success, diag >>
       ELSE /\ Success' = FALSE
            /\ diag' = Append(diag, Diag("download length", MemoryCount))
    /\ pc' = "verify"
    /\ UNCHANGED << cfg, ValueBytes, MemoryCount, MemoryBuffer, FileBuffer, loopvars, vi,
                    outFile, Offset, dumpRows, termvars, xvars, exitCode >>

-----------------------------------------------------------------------------
(* verify, receive *)

\* VerifyBegin with the test of Success left out
VerifyBeginAlways ==
    /\ pc = "verify"
    /\ IF FlagVerify
       THEN IF ValueBytes # 0
            THEN /\ vi' = 0
                 /\ pc' = "vf_loop"
                 /\ UNCHANGED << Success, diag >>
            ELSE /\ Success' = FALSE
                 /\ diag' = Append(diag, Diag("-v requires -n", 0))
                 /\ pc' = "recv"
                 /\ UNCHANGED vi
       ELSE /\ pc' = "recv"
            /\ UNCHANGED << vi, Success, diag >>
    /\ UNCHANGED << cfg, ValueBytes, MemoryCount, MemoryBuffer, FileBuffer, loopvars,
                    outFile, Offset, dumpRows, termvars, xvars, exitCode >>

\* verify data in image buffer
VerifyBegin ==
    /\ pc = "verify"
    /\ IF Success /\ FlagVerify
       THEN IF ValueBytes # 0
            THEN /\ vi' = 0
                 /\ pc' = "vf_loop"
                 /\ UNCHANGED << Success, diag >>
            ELSE /\ Success' = FALSE
                 /\ diag' = Append(diag, Diag("-v requires -n", 0))
                 /\ pc' = "recv"
                 /\ UNCHANGED vi
       ELSE /\ pc' = "recv"
            /\ UNCHANGED << vi, Success, diag >>
    /\ UNCHANGED << cfg, ValueBytes, MemoryCount, MemoryBuffer, FileBuffer, loopvars,
                    outFile, Offset, dumpRows, termvars, xvars, exitCode >>

\* Differs with the comparison of offset 0 left out
DiffersPastFirst(i) ==
    i > 0 /\ FileBuffer[i + 1] # MemoryBuffer[i + 1]

\* whether verify's comparison at offset i finds a difference
Differs(i) ==
    FileBuffer[i + 1] # MemoryBuffer[i + 1]

\* one iteration of verify's for loop
VerifyByte ==
    /\ pc = "vf_loop"
    /\ Success /\ vi < ValueBytes
    /\ IF Differs(vi)
       THEN /\ diag' = Append(diag, Diag("verify error at offset", vi))
            /\ Success' = FALSE
       ELSE UNCHANGED << diag, Success >>
    /\ vi' = vi + 1
    /\ UNCHANGED << pc, cfg, ValueBytes, MemoryCount, MemoryBuffer, FileBuffer, loopvars,
                    outFile, Offset, dumpRows, termvars, xvars, exitCode >>

VerifyEnd ==
    /\ pc = "vf_loop"
    /\ ~(Success /\ vi < ValueBytes)
    /\ diag' = IF Success THEN Append(diag, Diag("verified", ValueBytes)) ELSE diag
    /\ pc' = "recv"
    /\ UNCHANGED << cfg, ValueBytes, Success, MemoryCount, MemoryBuffer, FileBuffer,
                    loopvars, vi, outFile, Offset, dumpRows, termvars, xvars, exitCode >>

\* Receive with the test of Success left out
ReceiveAlways ==
    /\ pc = "recv"
    /\ IF FlagReceive /\ MemoryCount # 0
       THEN IF cfg.outOK
            THEN /\ outFile' = << Take(MemoryBuffer, MemoryCount) >>
                 /\ UNCHANGED << Success, diag >>
            ELSE /\ Success' = FALSE
                 /\ diag' = Append(diag, Diag("open for write", 0))
                 /\ UNCHANGED outFile
       ELSE UNCHANGED << outFile, Success, diag >>
    /\ pc' = "dump"
    /\ UNCHANGED << cfg, ValueBytes, MemoryCount, MemoryBuffer, FileBuffer, loopvars, vi,
                    Offset, dumpRows, termvars, xvars, exitCode >>

\* recv data in image buffer
Receive ==
    /\ pc = "recv"
    /\ IF Success /\ FlagReceive /\ MemoryCount # 0
       THEN IF cfg.outOK
            THEN /\ outFile' = << Take(MemoryBuffer, MemoryCount) >>
                 /\ UNCHANGED << Success, diag >>
            ELSE /\ Success' = FALSE
                 /\ diag' = Append(diag, Diag("open for write", 0))
                 /\ UNCHANGED outFile
       ELSE UNCHANGED << outFile, Success, diag >>
    /\ pc' = "dump"
    /\ UNCHANGED << cfg, ValueBytes, MemoryCount, MemoryBuffer, FileBuffer, loopvars, vi,
                    Offset, dumpRows, termvars, xvars, exitCode >>

-----------------------------------------------------------------------------
(* dump *)

\* char Template[66]
TemplateSize == 66

\* the bytes of one row: the bound of i in dump's inner for loop
RowBytes == 16

\* the first gutter column: the initial k of dump's inner for loop
GutterCol == 49

\* Gutter without the upper limit of the printable range
GutterOpen(b) ==
    IF b > 31 THEN b ELSE 46

\* the gutter character of a byte
Gutter(b) ==
    IF b > 31 /\ b < 127 THEN b ELSE 46

\* the template with the two digits Temp of a byte at column j and its gutter
\* character g at column k
SetCols(T, j, k, Temp, g) ==
    [T EXCEPT ![j + 1] = Temp[1], ![j + 2] = Temp[2], ![k + 1] = g]

\* dump's inner for loop from (i, j, k) on: the template and Offset after it
RECURSIVE FillRow(_, _, _, _, _)
FillRow(T, i, j, k, off) ==
    IF ~(i < RowBytes /\ off < MemoryCount) THEN [Template |-> T, Offset |-> off]
    ELSE FillRow(SetCols(T, j, k, HexFmt(W32(MemoryBuffer[off + 1]), 2, FALSE),
                         Gutter(MemoryBuffer[off + 1])),
                 i + 1, j + 3, k + 1, off + 1)

\* the template as printf's %s shows it: the characters before the first NUL
BlankTemplate ==
    [p \in 1..TemplateSize |-> IF p = TemplateSize THEN 0 ELSE Asc(" ")]

\* DumpBegin run only while Success holds
DumpBeginOnSuccess ==
    /\ pc = "dump"
    /\ IF Success /\ FlagDump /\ MemoryCount # 0
       THEN /\ Address' = ValueAddrStart
            /\ Offset' = 0
            /\ pc' = "dump_loop"
       ELSE /\ pc' = "go"
            /\ UNCHANGED << Address, Offset >>
    /\ UNCHANGED << cfg, ValueBytes, Success, MemoryCount, MemoryBuffer, FileBuffer,
                    Length, Chunk, vi, diag, outFile, dumpRows, termvars, xvars,
                    exitCode >>

DumpBegin ==
    /\ pc = "dump"
    /\ IF FlagDump /\ MemoryCount # 0
       THEN /\ Address' = ValueAddrStart
            /\ Offset' = 0
            /\ pc' = "dump_loop"
       ELSE /\ pc' = "go"
            /\ UNCHANGED << Address, Offset >>
    /\ UNCHANGED << cfg, ValueBytes, Success, MemoryCount, MemoryBuffer, FileBuffer,
                    Length, Chunk, vi, diag, outFile, dumpRows, termvars, xvars,
                    exitCode >>

\* dump after the inner loop left row
RowPrinted(row) ==
    /\ dumpRows' = Append(dumpRows, [label |-> HexFmt(Address, 6, FALSE),
                                     Template |-> CStr(row.Template)])
    /\ Offset' = row.Offset

\* one iteration of dump's while loop: one printed row
DumpRow ==
    /\ pc = "dump_loop"
    /\ Offset < MemoryCount
    /\ RowPrinted(FillRow(BlankTemplate, 0, 0, GutterCol, Offset))
    /\ Address' = Add32(Address, RowBytes)
    /\ UNCHANGED << pc, cfg, ValueBytes, Success, MemoryCount, MemoryBuffer, FileBuffer,
                    Length, Chunk, vi, diag, outFile, termvars, xvars, exitCode >>

DumpEnd ==
    /\ pc = "dump_loop"
    /\ ~(Offset < MemoryCount)
    /\ pc' = "go"
    /\ UNCHANGED << cfg, ValueBytes, Success, MemoryCount, MemoryBuffer, FileBuffer,
                    loopvars, vi, diag, outFile, Offset, dumpRows, termvars, xvars,
                    exitCode >>

-----------------------------------------------------------------------------
(* go, TerminalEmulator, exit *)

\* interactive terminal mode w/optional 'go'
Go ==
    /\ pc = "go"
    /\ IF FlagInteractive
       THEN /\ pc' = "term"
            /\ UNCHANGED xvars
       ELSE /\ pc' = "exit"
            /\ IF Success /\ ParamAddrGo # << >>
               THEN \E how \in Hows(CmdGo(ValueAddrGo)) :
                        Exchanged(Xchg("go", CmdGo(ValueAddrGo), how))
               ELSE UNCHANGED xvars
    /\ UNCHANGED << cfg, ValueBytes, Success, MemoryCount, MemoryBuffer, FileBuffer,
                    loopvars, vi, diag, outFile, Offset, dumpRows, termvars, exitCode >>

\* how many bytes the target may send of its own accord in terminal mode
MaxTargetOut == 2

\* the bytes the target sends of its own accord in terminal mode
TargetBytes ==
    {Asc(">"), 27}

\* TerminalEmulator's first lines
TermEnter ==
    /\ pc = "term"
    /\ Key' = 0
    /\ cycle' = NewCycle
    /\ pc' = IF ParamAddrGo # << >> THEN "term_go1" ELSE "term_console"
    /\ UNCHANGED << cfg, ValueBytes, Success, MemoryCount, MemoryBuffer, FileBuffer,
                    loopvars, vi, diag, outFile, Offset, dumpRows, conIn, conOut, xvars,
                    exitCode >>

\* fprintf( FileHandleSam9, "#\n", ValueAddrGo) and its GetResponse
TermGo1 ==
    /\ pc = "term_go1"
    /\ \E how \in Hows(CmdIdentify) : Exchanged(Xchg("term_go1", CmdIdentify, how))
    /\ pc' = "term_go2"
    /\ UNCHANGED << cfg, ValueBytes, Success, MemoryCount, MemoryBuffer, FileBuffer,
                    loopvars, vi, diag, outFile, Offset, dumpRows, termvars, exitCode >>

\* "G%X", as TerminalEmulator writes and flushes it
CmdGoTerm(A) ==
    << Asc("G") >> \o HexFmt(A, 1, TRUE)

\* fprintf( FileHandleSam9, "G%X", ValueAddrGo), fflush, and its GetResponse
TermGo2 ==
    /\ pc = "term_go2"
    /\ \E how \in Hows(CmdGoTerm(ValueAddrGo)) :
            Exchanged(Xchg("term_go2", CmdGoTerm(ValueAddrGo), how))
    /\ pc' = "term_console"
    /\ UNCHANGED << cfg, ValueBytes, Success, MemoryCount, MemoryBuffer, FileBuffer,
                    loopvars, vi, diag, outFile, Offset, dumpRows, termvars, exitCode >>

\* Remap without the replacement of 0x0d
RemapNone(k) ==
    k

\* the key forwarded for the byte read from the console
Remap(k) ==
    IF k = 13 THEN Asc("#") ELSE k

\* whether TerminalEmulator echoes the forwarded key
Echoed(k) ==
    k > 31 /\ k < 127

\* how many bytes the console keeps in view
MaxConsole == 5

\* the console after b is written to it: the oldest byte scrolls out of a
\* full view
ConsoleShows(out, b) ==
    IF Len(out) < MaxConsole THEN Append(out, b) ELSE Append(Tail(out), b)

\* KeyRead with the sentinel bytes kept from the target
KeyReadHeld(c, k) ==
    /\ Key' = k
    /\ conIn' = Tail(conIn)
    /\ wire' = IF k \in {27, 3} THEN wire ELSE Append(wire, k)
    /\ conOut' = IF Echoed(k) THEN ConsoleShows(conOut, k) ELSE conOut
    /\ cycle' = [cycle EXCEPT !.read = << c >>]

\* the console half of a cycle that reads the keystroke c and forwards k
KeyRead(c, k) ==
    /\ Key' = k
    /\ conIn' = Tail(conIn)
    /\ wire' = Append(wire, k)
    /\ conOut' = IF Echoed(k) THEN ConsoleShows(conOut, k) ELSE conOut
    /\ cycle' = [cycle EXCEPT !.read = << c >>]

\* the console half of one cycle: with a keystroke waiting or with none
TermConsole ==
    /\ pc = "term_console"
    /\ \E avail \in (IF conIn # << >> THEN BOOLEAN ELSE {FALSE}) :
        IF avail
        THEN KeyRead(Head(conIn), Remap(Head(conIn)))
        ELSE UNCHANGED << Key, conIn, wire, conOut, cycle >>
    /\ pc' = "term_drain"
    /\ UNCHANGED << cfg, ValueBytes, Success, MemoryCount, MemoryBuffer, FileBuffer,
                    loopvars, vi, diag, outFile, Offset, dumpRows, tmem, rx, Value,
                    ResponseCount, tgt, xlog, exitCode >>

\* one iteration of the loop that drains the target
TermDrain ==
    /\ pc = "term_drain"
    /\ rx # << >>
    /\ conOut' = ConsoleShows(conOut, Head(rx))
    /\ rx' = Tail(rx)
    /\ Key' = 0
    /\ cycle' = [cycle EXCEPT !.drained = IF @ < MaxConsole THEN @ + 1 ELSE @]
    /\ UNCHANGED << pc, cfg, ValueBytes, Success, MemoryCount, MemoryBuffer, FileBuffer,
                    loopvars, vi, diag, outFile, Offset, dumpRows, conIn, wire, tmem,
                    Value, ResponseCount, tgt, xlog, exitCode >>

\* the end of the drain and the test of the do-while loop
TermCycleEnd ==
    /\ pc = "term_drain"
    /\ rx = << >>
    /\ IF Key # 27 /\ Key # 3
       THEN pc' = "term_console" /\ cycle' = NewCycle
       ELSE pc' = "term_exit" /\ UNCHANGED cycle
    /\ UNCHANGED << cfg, ValueBytes, Success, MemoryCount, MemoryBuffer, FileBuffer,
                    loopvars, vi, diag, outFile, Offset, dumpRows, Key, conIn, conOut,
                    xvars, exitCode >>

\* the target sends a byte while the terminal runs
TargetSends ==
    /\ pc \in {"term_console", "term_drain"}
    /\ tgt.sent < tgt.chatty
    /\ \E b \in TargetBytes : rx' = Append(rx, b)
    /\ tgt' = [tgt EXCEPT !.sent = @ + 1]
    /\ UNCHANGED << pc, cfg, ValueBytes, Success, MemoryCount, MemoryBuffer, FileBuffer,
                    loopvars, vi, diag, outFile, Offset, dumpRows, termvars, wire, tmem,
                    Value, ResponseCount, xlog, exitCode >>

\* how many bytes from the target can wait to be read by the host
MaxPending == 2

\* a target that sends its prompt whenever it likes, for as long as it likes
TargetStreams ==
    /\ pc \in {"term_console", "term_drain"}
    /\ Len(rx) < MaxPending
    /\ rx' = Append(rx, Asc(">"))
    /\ UNCHANGED << pc, cfg, ValueBytes, Success, MemoryCount, MemoryBuffer, FileBuffer,
                    loopvars, vi, diag, outFile, Offset, dumpRows, termvars, wire, tmem,
                    Value, ResponseCount, tgt, xlog, exitCode >>

\* TerminalEmulator's last lines
TermExit ==
    /\ pc = "term_exit"
    /\ pc' = "exit"
    /\ UNCHANGED << cfg, ValueBytes, Success, MemoryCount, MemoryBuffer, FileBuffer,
                    loopvars, vi, diag, outFile, Offset, dumpRows, termvars, xvars,
                    exitCode >>

\* main's last lines
Exit ==
    /\ pc = "exit"
    /\ exitCode' = IF Success THEN 0 ELSE 1
    /\ pc' = "done"
    /\ UNCHANGED << cfg, ValueBytes, Success, MemoryCount, MemoryBuffer, FileBuffer,
                    loopvars, vi, diag, outFile, Offset, dumpRows, termvars, xvars >>

\* the steps of a run that sends, downloads, verifies and dumps
NextTransfer ==
    \/ Main \/ OpenDevice \/ Hello \/ Version \/ Cpu \/ Flush \/ LoadFileStep
    \/ SendBegin \/ SendChunk \/ SendEnd
    \/ LoadMemBegin \/ LoadMemChunk \/ LoadMemEnd
    \/ VerifyBegin \/ VerifyByte \/ VerifyEnd
    \/ Receive
    \/ DumpBegin \/ DumpRow \/ DumpEnd
    \/ Go \/ Exit

\* the steps of TerminalEmulator
NextTerminal ==
    \/ TermEnter \/ TermGo1 \/ TermGo2 \/ TermConsole \/ TermDrain
    \/ TermCycleEnd \/ TargetSends \/ TermExit

Next ==
    NextTransfer \/ NextTerminal

-----------------------------------------------------------------------------
(* Runs *)

\* -a=0x300000, the default start address
AddrDefault ==
    [hi |-> 48, lo |-> 0]

\* -a=0xFFFFFFFD: a transfer from here passes the end of the address space
AddrHigh ==
    [hi |-> Half - 1, lo |-> Half - 3]

\* a memory or file image of n bytes: byte i (0-based) is (a*i + b) mod 256
Image(n, a, b) ==
    [i \in 1..n |-> (a * (i - 1) + b) % 256]

\* a target that answers every command well and in time and sends nothing else
Sound ==
    [budget |-> 0, mute |-> FALSE, chatty |-> 0]

\* the state at position p for the command line and environment c, the target
\* memory mem, the keystrokes keys, a target that is mute or not, and the
\* bytes `pending` from the target
InitAt(p, c, mem, keys, env, pending) ==
    /\ pc = p
    /\ cfg = c
    /\ ValueBytes = 0
    /\ Success = TRUE
    /\ ResponseCount = 0
    /\ Value = Zero32
    /\ MemoryCount = 0
    /\ MemoryBuffer = << >>
    /\ FileBuffer = << >>
    /\ Address = Zero32
    /\ Length = 0
    /\ Chunk = 0
    /\ vi = 0
    /\ diag = << >>
    /\ outFile = << >>
    /\ Offset = 0
    /\ dumpRows = << >>
    /\ Key = 0
    /\ conIn = keys
    /\ conOut = << >>
    /\ wire = << >>
    /\ rx = pending
    /\ tmem = mem
    /\ tgt = [faults |-> 0, budget |-> env.budget, mute |-> env.mute, sent |-> 0,
              chatty |-> env.chatty]
    /\ xlog = << >>
    /\ cycle = NewCycle
    /\ exitCode = -1

\* a command line that asks for nothing, on a host where everything works
Plain ==
    [argc |-> 2, argsOK |-> TRUE, portOK |-> TRUE, deviceOK |-> TRUE,
     FlagReceive |-> FALSE, FlagDump |-> FALSE, FlagSend |-> FALSE, FlagCpu |-> FALSE,
     FlagVerify |-> FALSE, FlagQuiet |-> FALSE, FlagInteractive |-> FALSE,
     ParamFileName |-> << >>, ParamAddrGo |-> << >>, ParamBytes |-> << >>,
     ValueAddrStart |-> AddrDefault,
     disk |-> [open |-> FALSE, bytes |-> << >>], outOK |-> TRUE]

-----------------------------------------------------------------------------
(* GetResponse alone, on every burst over a small alphabet *)

\* the longest burst of ScanAlphabet
MaxBurst == 5

ScanAlphabet ==
    {Asc("0"), Asc("x"), Asc("1"), Asc("A"), Asc("g"), Asc(" ")}

RECURSIVE Words(_, _)
Words(S, n) ==
    IF n = 0 THEN {<< >>}
    ELSE LET W == Words(S, n - 1)
         IN  W \cup {Append(w, c) : w \in {v \in W : Len(v) = n - 1}, c \in S}

\* bursts that reach GetResponse's limit: a marker and a value after k bytes
LongBursts ==
    {[i \in 1..k |-> Asc("g")] \o Codes(<< "0", "x", "1", "A" >>) :
        k \in (ResponseSize - 6)..(ResponseSize - 1)}

\* a run that finds the bytes b, sent by the target earlier, waiting on the port
InitScan ==
    \E b \in Words(ScanAlphabet, MaxBurst) \cup LongBursts :
        InitAt("main", Plain, Image(MemWin, 0, 0), << >>, Sound, b)

\* main up to its first GetResponse
SpecScan ==
    InitScan /\ [][Main \/ OpenDevice \/ Hello]_vars

\* the burst that the latest GetResponse captured
LastResponse ==
    xlog[Len(xlog)].Response

\* whether a marker and a hexadecimal digit start at position i of b
MarkerAt(b, i) ==
    /\ i + 2 <= Len(b)
    /\ b[i] = Asc("0")
    /\ b[i + 1] = Asc("x")
    /\ IsHexDigit(b[i + 2])

\* the value of the hexadecimal digits that follow the first marker of b
MarkerValue(b) ==
    LET i == CHOOSE k \in 1..Len(b) : MarkerAt(b, k) /\ \A j \in 1..(k - 1) : ~MarkerAt(b, j)
        after == Drop(b, i + 1)
    IN  HexAccum(Take(after, LeadCount(after, "hex")), Zero32)

\* C5: GetResponse returns the value of the hexadecimal digits after the first
\* "0x" of the burst whatever precedes it, and a burst without "0x" gives the
\* value 0 and a ResponseCount equal to the length of the burst
C5_FirstMarkerDecoded ==
    pc = "version" =>
        /\ (\E i \in 1..Len(LastResponse) : MarkerAt(LastResponse, i)) =>
                Value = MarkerValue(LastResponse)
        /\ (\A i \in 1..(Len(LastResponse) - 1) :
                ~(LastResponse[i] = Asc("0") /\ LastResponse[i + 1] = Asc("x"))) =>
                    (Value = Zero32 /\ ResponseCount = Len(LastResponse))

-----------------------------------------------------------------------------
(* Transfers: send, download, verify and dump over every count up to MaxCount *)

FileName ==
    << "image.bin" >>

\* the memory and file contents of the transfer runs
Patterns ==
    {<< 37, 126 >>, << 0, 65 >>}

\* a target that may fail MaxFaults of the commands it gets
Faulty ==
    [budget |-> MaxFaults, mute |-> FALSE, chatty |-> 0]

\* a target that never sends a byte
Mute ==
    [budget |-> 0, mute |-> TRUE, chatty |-> 0]

\* the file on the host's disk
Disk(bytes) ==
    [open |-> TRUE, bytes |-> bytes]

\* -n=<n>, or no -n for n = 0
Bytes(n) ==
    IF n = 0 THEN << >> ELSE << n >>

\* the memory the target starts with
Memory(m) ==
    Image(MemWin, m[1], m[2])

\* -d -n=<n> -a=<a>: a download and its dump
DownloadRuns ==
    {[c |-> [Plain EXCEPT !.FlagDump = TRUE, !.ParamBytes = Bytes(n),
                          !.ValueAddrStart = a],
      mem |-> Memory(m), env |-> env] :
        n \in 0..MaxCount, a \in {AddrDefault, AddrHigh}, m \in Patterns,
        env \in {Faulty, Mute}}

\* -s [-v] -d -f=<file of L bytes> [-n=<n>] -a=<a>: an upload, then a download
RoundTripRuns ==
    {[c |-> [Plain EXCEPT !.FlagSend = TRUE, !.FlagVerify = v, !.FlagDump = TRUE,
                          !.ParamFileName = FileName, !.ParamBytes = Bytes(n),
                          !.ValueAddrStart = a, !.disk = Disk(Image(L, f[1], f[2]))],
      mem |-> Memory(<< 0, 0 >>), env |-> Sound] :
        v \in BOOLEAN, n \in {0, 2, MaxCount}, a \in {AddrDefault, AddrHigh},
        L \in 0..MaxCount, f \in Patterns}

\* an upload to a target that may fail, or that never answers
FaultySendRuns ==
    {[c |-> [Plain EXCEPT !.FlagSend = TRUE, !.FlagDump = TRUE,
                          !.ParamFileName = FileName,
                          !.disk = Disk(Image(L, 37, 126))],
      mem |-> Memory(<< 0, 0 >>), env |-> env] : L \in {1, 5}, env \in {Faulty, Mute}}

\* the first L bytes of mem, changed at offset e ("one") or from offset e on
\* ("rest"); unchanged for e = L
Changed(mem, L, e, style) ==
    [i \in 1..L |-> IF i - 1 = e \/ (style = "rest" /\ i - 1 > e)
                    THEN (mem[i] + 1) % 256 ELSE mem[i]]

\* -v -f=<file of L bytes>: a download of L bytes and its comparison with the file
VerifyRuns ==
    {[c |-> [Plain EXCEPT !.FlagVerify = TRUE, !.ParamFileName = FileName,
                          !.disk = Disk(Changed(Memory(<< 37, 126 >>), L, e, style))],
      mem |-> Memory(<< 37, 126 >>), env |-> Sound] :
        L \in 1..MaxCount, e \in 0..MaxCount, style \in {"one", "rest"}}

\* -d -n=<n> for the longer images, up to MaxDump bytes
DumpRuns ==
    {[c |-> [Plain EXCEPT !.FlagDump = TRUE, !.ParamBytes = Bytes(n)],
      mem |-> Memory(<< 37, 126 >>), env |-> Sound] : n \in (MaxCount + 1)..MaxDump}

\* -s -d -f=<file of MaxDump bytes>: an upload of several word chunks
LongSendRuns ==
    {[c |-> [Plain EXCEPT !.FlagSend = TRUE, !.FlagDump = TRUE,
                          !.ParamFileName = FileName,
                          !.disk = Disk(Image(MaxDump, 37, 126))],
      mem |-> Memory(<< 0, 0 >>), env |-> Sound]}

\* -v -d -n=<n> -f=<file of L bytes>, the file differing from the memory at
\* offset 1 and from offset 3 on, with a target that may fail
SizedVerifyRuns ==
    {[c |-> [Plain EXCEPT !.FlagVerify = TRUE, !.FlagDump = TRUE,
                          !.ParamFileName = FileName, !.ParamBytes = Bytes(n),
                          !.disk = Disk(Changed(Changed(Memory(<< 37, 126 >>), L, 1, "one"),
                                                L, 3, "rest"))],
      mem |-> Memory(<< 37, 126 >>), env |-> env] :
        n \in {0, 2, 5}, L \in {0, 2, 5, MaxCount, MaxDump}, env \in {Sound, Faulty}}

XferRuns ==
    DownloadRuns \cup RoundTripRuns \cup FaultySendRuns \cup VerifyRuns \cup DumpRuns
        \cup LongSendRuns \cup SizedVerifyRuns

InitXfer ==
    \E r \in XferRuns : InitAt("main", r.c, r.mem, << >>, r.env, << >>)

SpecXfer ==
    InitXfer /\ [][NextTransfer]_vars

-----------------------------------------------------------------------------
(* Download, round trip, verify, unresponsive target: C1 to C4 *)

IsDownload(e) ==
    e.phase = "download"

IsSend(e) ==
    e.phase = "send"

\* the exchanges of LoadMemory so far, in order
DownloadLog ==
    SelectSeq(xlog, IsDownload)

\* the exchanges of send so far, in order
SendLog ==
    SelectSeq(xlog, IsSend)

\* the target answered every command of log well and in time
AllAnswered(log) ==
    \A i \in 1..Len(log) : log[i].how = "ok"

\* the number of bytes the chunk of a read or write command covers
WidthOf(cmd) ==
    IF cmd[1] \in {Asc("w"), Asc("W")} THEN 4 ELSE 1

\* the w low-order bytes of reg, lowest first
LittleEndian(reg, w) ==
    [i \in 1..w |-> Lane(reg, i - 1)]

\* the image that the register values of log give, chunk after chunk
RECURSIVE Assembled(_)
Assembled(log) ==
    IF log = << >> THEN << >>
    ELSE LittleEndian(Head(log).reg, WidthOf(Head(log).cmd)) \o Assembled(Tail(log))

\* nothing but the download has failed so far
OnlyDownloadFailed ==
    \A i \in 1..Len(diag) :
        diag[i].msg \in {"download unresponsive", "download length", "-d requires -n"}

\* the download was asked for, was not suppressed by an earlier failure, and
\* is over
DownloadOver ==
    /\ pc = "verify"
    /\ FlagVerify \/ FlagReceive \/ FlagDump
    /\ OnlyDownloadFailed

\* the download succeeded with an image of exactly ValueBytes bytes, the
\* little-endian bytes of the register values the target returned
ImageAssembled ==
    /\ Success
    /\ MemoryCount = ValueBytes
    /\ Len(MemoryBuffer) = ValueBytes
    /\ MemoryBuffer = Assembled(DownloadLog)

\* C1 as stated: against a target that answers every read command, a
\* download of any count from 0 on succeeds, and its image is exactly count
\* bytes, the little-endian unpacking of the register values returned
C1_EveryCountDownloads ==
    (DownloadOver /\ AllAnswered(DownloadLog)) => ImageAssembled

\* C1 as amended: the same for every count from 1 on; a count of 0 (no -n)
\* is refused with a diagnostic and the run fails
C1_EveryPositiveCountDownloads ==
    /\ (DownloadOver /\ AllAnswered(DownloadLog) /\ ValueBytes >= 1) => ImageAssembled
    /\ (DownloadOver /\ ValueBytes = 0) =>
            (~Success /\ DownloadLog = << >> /\ MemoryCount = 0)

\* a download of 6 or 7 bytes that passed the end of the address space: one
\* word chunk, then byte chunks
C1_Witness ==
    /\ DownloadOver /\ AllAnswered(DownloadLog)
    /\ ValueBytes >= 6 /\ Len(DownloadLog) >= 3
    /\ ValueAddrStart = AddrHigh
    /\ MemoryBuffer = Take(tmem, ValueBytes)
    /\ \E i \in 1..ValueBytes : MemoryBuffer[i] > 127

\* C2: on a memory target that answers every command, the upload of a byte
\* sequence of n >= 1 bytes to A followed by the download of n bytes from A
\* yields the uploaded bytes in the same order
C2_RoundTrip ==
    (/\ pc = "verify"
     /\ SendLog # << >> /\ AllAnswered(SendLog)
     /\ DownloadLog # << >> /\ AllAnswered(DownloadLog))
    => (/\ Success
        /\ MemoryCount = ValueBytes
        /\ ValueBytes = Len(FileBuffer)
        /\ MemoryBuffer = FileBuffer
        /\ FileBuffer = Take(cfg.disk.bytes, ValueBytes))

\* a round trip of 6 bytes (one word chunk, two byte chunks) with differing bytes
C2_Witness ==
    /\ pc = "verify"
    /\ Len(SendLog) = 3 /\ AllAnswered(SendLog)
    /\ Len(DownloadLog) = 3 /\ AllAnswered(DownloadLog)
    /\ ValueBytes = 6
    /\ MemoryBuffer = FileBuffer
    /\ FileBuffer[1] # FileBuffer[2] /\ FileBuffer[5] # FileBuffer[6]

\* the offsets at which the file image and the memory image differ
Mismatches ==
    {i \in 0..(ValueBytes - 1) : FileBuffer[i + 1] # MemoryBuffer[i + 1]}

Lowest(S) ==
    CHOOSE m \in S : \A k \in S : m <= k

IsVerifyError(d) ==
    d.msg = "verify error at offset"

\* the mismatches verify has reported
VerifyErrors ==
    SelectSeq(diag, IsVerifyError)

\* verify's loop is over
VerifyOver ==
    pc = "vf_loop" /\ ~(Success /\ vi < ValueBytes)

\* C3: verify succeeds iff the two images of equal length are byte-identical;
\* otherwise it reports exactly one mismatch, at the lowest differing offset,
\* and compares no offset beyond it
C3_VerifyFirstMismatch ==
    /\ pc = "vf_loop" =>
        /\ Len(FileBuffer) = Len(MemoryBuffer)
        /\ Mismatches # {} => vi <= Lowest(Mismatches) + 1
        /\ Len(VerifyErrors) <= 1
    /\ VerifyOver =>
        /\ Success <=> Mismatches = {}
        /\ Mismatches = {} => (VerifyErrors = << >> /\ vi = ValueBytes)
        /\ Mismatches # {} =>
            /\ VerifyErrors = << Diag("verify error at offset", Lowest(Mismatches)) >>
            /\ vi = Lowest(Mismatches) + 1

\* verify ended at a mismatch that is neither the first byte nor the only one
C3_Witness ==
    /\ VerifyOver
    /\ ~Success
    /\ Cardinality(Mismatches) >= 2
    /\ Lowest(Mismatches) >= 1
    /\ vi < ValueBytes

\* the bytes the chunks before exchange i of the download cover
RECURSIVE BytesOf(_)
BytesOf(log) ==
    IF log = << >> THEN 0 ELSE WidthOf(Head(log).cmd) + BytesOf(Tail(log))

IsUnresponsive(d) ==
    d.msg = "download unresponsive"

\* C4: when the capture that follows the read command of a chunk reads no
\* byte, the download fails as unresponsive after that one capture: that
\* exchange is the download's last, the command is on the wire once, the
\* image keeps the bytes of the earlier chunks only; a target that never
\* responds makes the download fail after one command
C4_UnresponsiveFailsAtOnce ==
    /\ \A i \in 1..Len(DownloadLog) :
        DownloadLog[i].Response = << >> =>
            /\ i = Len(DownloadLog)
            /\ pc # "lm_loop"
            /\ ~Success
            /\ MemoryCount = BytesOf(Take(DownloadLog, i - 1))
            /\ SelectSeq(diag, IsUnresponsive) =
                    << Diag("download unresponsive", MemoryCount) >>
            /\ \A j \in 1..(i - 1) : DownloadLog[j].cmd # DownloadLog[i].cmd
    /\ tgt.mute => (Len(DownloadLog) <= 1 /\ Len(xlog) - Len(SendLog) <= 4 /\ MemoryCount = 0)

\* the target stayed silent at a chunk after the first
C4_Witness ==
    /\ Len(DownloadLog) >= 2
    /\ DownloadLog[Len(DownloadLog)].Response = << >>
    /\ DownloadLog[Len(DownloadLog)].how = "silent"
    /\ MemoryCount >= 4
    /\ pc = "done"

-----------------------------------------------------------------------------
(* Transfer size and dump: C9, C10 *)

\* C9: when send is requested the number of bytes uploaded, and the transfer
\* size of what follows, is the length of the loaded file, whether or not -n
\* was given
C9_FileLengthIsTransferSize ==
    (pc = "download" /\ FlagSend /\ Success) =>
        (Length = Len(cfg.disk.bytes) /\ ValueBytes = Len(cfg.disk.bytes))

\* the digits of %x
LowerDigits ==
    Codes(<< "0", "1", "2", "3", "4", "5", "6", "7", "8", "9", "a", "b", "c", "d", "e", "f" >>)

\* the two columns that show the byte b
TwoDigits(b) ==
    << LowerDigits[(b \div 16) + 1], LowerDigits[(b % 16) + 1] >>

\* the row label of the address A, as "$%6.6x" prints it after the '$'
IsLabelOf(label, A) ==
    /\ Len(label) >= 6
    /\ Len(label) > 6 => label[1] # Asc("0")
    /\ \A p \in 1..Len(label) : \E d \in 1..16 : label[p] = LowerDigits[d]
    /\ HexAccum(label, Zero32) = A

\* the text of row r shows byte i of the row, or blanks where the image has ended
ShowsByte(text, r, i) ==
    IF 16 * r + i < MemoryCount
    THEN /\ SubSeq(text, 3 * i + 1, 3 * i + 2) = TwoDigits(MemoryBuffer[16 * r + i + 1])
         /\ text[50 + i] = (IF MemoryBuffer[16 * r + i + 1] > 31 /\ MemoryBuffer[16 * r + i + 1] < 127
                            THEN MemoryBuffer[16 * r + i + 1] ELSE Asc("."))
    ELSE /\ SubSeq(text, 3 * i + 1, 3 * i + 2) = << Asc(" "), Asc(" ") >>
         /\ text[50 + i] = Asc(" ")

\* C10: the dump of an image of L >= 1 bytes has ceil(L/16) rows; row r is
\* labelled start + 16r and shows bytes 16r .. min(16r+15, L-1) in order, each
\* as two hexadecimal digits in its own column and one gutter character, with
\* blanks in the unused columns and gutter positions of a partial last row
C10_DumpLayout ==
    (pc = "go" /\ FlagDump /\ MemoryCount >= 1) =>
        /\ Len(dumpRows) = (MemoryCount + 15) \div 16
        /\ \A r \in 0..(Len(dumpRows) - 1) :
            /\ IsLabelOf(dumpRows[r + 1].label, Add32(ValueAddrStart, 16 * r))
            /\ Len(dumpRows[r + 1].Template) = 65
            /\ \A i \in 0..15 :
                /\ ShowsByte(dumpRows[r + 1].Template, r, i)
                /\ dumpRows[r + 1].Template[3 * i + 3] = Asc(" ")
            /\ dumpRows[r + 1].Template[49] = Asc(" ")

\* the dump of 17 bytes: a full row, then a row with one hexadecimal column
C10_Witness ==
    /\ pc = "go" /\ FlagDump
    /\ MemoryCount = 17
    /\ Len(dumpRows) = 2
    /\ dumpRows[2].label = Codes(<< "3", "0", "0", "0", "1", "0" >>)
    /\ dumpRows[2].Template[1] # Asc(" ")
    /\ dumpRows[2].Template[4] = Asc(" ")
    /\ \E i \in 50..65 : dumpRows[1].Template[i] = Asc(".")
    /\ \E i \in 50..65 : dumpRows[1].Template[i] \notin {Asc("."), Asc(" ")}

-----------------------------------------------------------------------------
(* Whole runs: command lines that fail, the terminal, and the transfers *)

\* the longest script of keystrokes
MaxKeys == 2

\* the keys the operator types: Enter, 'a', Escape, Ctrl-C
Keys ==
    {13, Asc("a"), 27, 3}

\* a target that sends up to MaxTargetOut bytes of its own accord
Chatty ==
    [budget |-> 0, mute |-> FALSE, chatty |-> MaxTargetOut]

\* command lines that are refused, devices and files that do not open, and
\* the operations the transfer runs leave out
ControlCfgs ==
    {[Plain EXCEPT !.argc = 1],
     [Plain EXCEPT !.argsOK = FALSE],
     [Plain EXCEPT !.portOK = FALSE],
     [Plain EXCEPT !.deviceOK = FALSE, !.FlagCpu = TRUE],
     [Plain EXCEPT !.FlagReceive = TRUE],
     [Plain EXCEPT !.FlagSend = TRUE],
     [Plain EXCEPT !.FlagSend = TRUE, !.FlagReceive = TRUE, !.ParamFileName = FileName],
     [Plain EXCEPT !.FlagDump = TRUE, !.ParamBytes = << 0 >>],
     [Plain EXCEPT !.FlagCpu = TRUE],
     [Plain EXCEPT !.FlagCpu = TRUE, !.FlagDump = TRUE, !.ParamBytes = << 5 >>],
     [Plain EXCEPT !.FlagCpu = TRUE, !.FlagSend = TRUE, !.FlagVerify = TRUE,
                   !.FlagDump = TRUE, !.ParamFileName = FileName,
                   !.ParamAddrGo = << AddrDefault >>, !.disk = Disk(Image(5, 37, 126))],
     [Plain EXCEPT !.FlagCpu = TRUE, !.FlagQuiet = TRUE, !.ParamAddrGo = << AddrDefault >>],
     [Plain EXCEPT !.FlagVerify = TRUE],
     [Plain EXCEPT !.FlagVerify = TRUE, !.ParamFileName = FileName],
     [Plain EXCEPT !.FlagSend = TRUE, !.ParamFileName = FileName],
     [Plain EXCEPT !.FlagSend = TRUE, !.ParamFileName = FileName, !.disk = Disk(<< >>)],
     [Plain EXCEPT !.FlagSend = TRUE, !.ParamFileName = FileName,
                   !.ParamAddrGo = << AddrDefault >>, !.disk = Disk(Image(5, 37, 126))],
     [Plain EXCEPT !.FlagReceive = TRUE, !.ParamFileName = FileName, !.ParamBytes = << 5 >>],
     [Plain EXCEPT !.FlagReceive = TRUE, !.ParamFileName = FileName, !.ParamBytes = << 5 >>,
                   !.outOK = FALSE],
     [Plain EXCEPT !.FlagReceive = TRUE, !.ParamFileName = FileName],
     [Plain EXCEPT !.FlagCpu = TRUE, !.FlagInteractive = TRUE,
                   !.ParamAddrGo = << AddrDefault >>],
     [Plain EXCEPT !.FlagDump = TRUE, !.FlagInteractive = TRUE,
                   !.ParamAddrGo = << AddrDefault >>],
     [Plain EXCEPT !.FlagReceive = TRUE, !.FlagVerify = TRUE, !.ParamFileName = FileName,
                   !.disk = Disk(Image(5, 37, 126))],
     [Plain EXCEPT !.FlagReceive = TRUE, !.FlagVerify = TRUE, !.ParamFileName = FileName,
                   !.disk = Disk(Image(5, 0, 65))]}

ControlRuns ==
    {[c |-> c, mem |-> Memory(<< 37, 126 >>), env |-> env] :
        c \in ControlCfgs, env \in {Faulty, Mute}}

\* -i, with or without -g=<address>
TerminalCfgs ==
    {[Plain EXCEPT !.FlagInteractive = TRUE, !.ParamAddrGo = g] :
        g \in {<< >>, << AddrDefault >>}}

InitControl ==
    \E r \in ControlRuns : InitAt("main", r.c, r.mem, << >>, r.env, << >>)

InitTerminal ==
    \E c \in TerminalCfgs, keys \in Words(Keys, MaxKeys), env \in {Sound, Chatty} :
        InitAt("main", c, Memory(<< 37, 126 >>), keys, env, << >>)

Init ==
    InitControl \/ InitTerminal \/ InitXfer

Spec ==
    Init /\ [][Next]_vars

\* the console half of a cycle reads the key c
ReadsKey(c) ==
    /\ pc = "term_console"
    /\ conIn # << >>
    /\ Head(conIn) = c
    /\ conIn' = Tail(conIn)

\* C6 as stated: when the byte read from the console is 0x0D, the byte
\* written to the target is '#' and nothing is echoed to the console
C6_EnterNotEchoed ==
    [][ReadsKey(13) => (wire' = Append(wire, Asc("#")) /\ conOut' = conOut)]_vars

\* C6 as amended: when the byte read from the console is 0x0D, the byte
\* written to the target is '#', and the console echo of that keystroke is
\* that '#' (0x0D itself is neither written nor echoed)
C6_EnterSentAndEchoedAsHash ==
    [][ReadsKey(13) => (wire' = Append(wire, Asc("#")) /\ conOut' = Append(conOut, Asc("#")))]_vars

\* Enter was read in this cycle: the target got '#' and so did the console
C6_Witness ==
    /\ pc = "term_drain"
    /\ cycle = [read |-> << 13 >>, drained |-> 0]
    /\ wire[Len(wire)] = Asc("#")
    /\ conOut = << Asc("#") >>

\* the do-while test at the end of a cycle
CycleEnds ==
    pc = "term_drain" /\ pc' # "term_drain"

\* C7: a cycle in which the byte read from the console is Escape or Ctrl-C
\* ends the loop, whether or not target bytes were drained in it, and a cycle
\* with any other console byte does not
C7_SentinelEndsCycle ==
    [][CycleEnds => (pc' = "term_exit" <=> cycle.read \in {<< 27 >>, << 3 >>})]_vars

IsFailure(d) ==
    d.msg # "verified"

\* C8: the exit code is zero iff no requested operation failed
C8_ExitCodeTellsFailure ==
    pc = "done" => (exitCode = 0 <=> SelectSeq(diag, IsFailure) = << >>)

-----------------------------------------------------------------------------
(* Independence of the operations: C11 *)

\* the device was opened: main got as far as its first exchange
DeviceOpened ==
    xlog # << >>

\* the file that -f names can be loaded in the size asked for
FileLoadable ==
    /\ ParamFileName # << >>
    /\ cfg.disk.open
    /\ Len(cfg.disk.bytes) >= 1
    /\ ParamBytes # << >> => ParamBytes[1] <= Len(cfg.disk.bytes)

\* C11: a requested operation whose own precondition is satisfied runs even
\* when an earlier operation it takes no input from (the cpu query) failed:
\* a send whose file can be loaded sends, and a download with a count reads
C11_IndependentOperationsRun ==
    (pc = "done" /\ DeviceOpened) =>
        /\ (FlagSend /\ FileLoadable) => SendLog # << >>
        /\ (FlagDump /\ ~FlagSend /\ ~FlagVerify /\ ParamBytes # << >>) =>
                DownloadLog # << >>

-----------------------------------------------------------------------------
(* Chunk widths: C12 *)

\* the bytes still to transfer when command i of log is issued
Remaining(log, i) ==
    ValueBytes - BytesOf(Take(log, i - 1))

\* every command of log covers 4 bytes when 4 or more remain and 1 byte when
\* 1, 2 or 3 remain, and the commands together stay within the count
WidthsFit(log) ==
    /\ \A i \in 1..Len(log) :
        /\ Remaining(log, i) >= 1
        /\ WidthOf(log[i].cmd) = (IF Remaining(log, i) >= 4 THEN 4 ELSE 1)
    /\ BytesOf(log) <= ValueBytes

\* C12: at every read command of download and every write command of upload
\* the chunk width is 4 if 4 or more bytes remain and 1 if 1, 2 or 3 remain,
\* so that no chunk covers bytes beyond the requested count
C12_ChunkWidth ==
    /\ WidthsFit(DownloadLog)
    /\ WidthsFit(SendLog)
    /\ pc = "send_loop" => Length = BytesOf(SendLog)
    /\ Len(MemoryBuffer) > 0 => MemoryCount <= Len(MemoryBuffer)

\* an upload and a download of several word chunks and a trailing byte, next
\* to transfers of 6 or 7 bytes
C12_Witness ==
    /\ pc = "done"
    /\ Len(SendLog) >= 4 /\ Len(DownloadLog) >= 4
    /\ WidthOf(SendLog[2].cmd) = 4 /\ WidthOf(SendLog[Len(SendLog)].cmd) = 1
    /\ WidthOf(DownloadLog[2].cmd) = 4 /\ WidthOf(DownloadLog[Len(DownloadLog)].cmd) = 1
    /\ BytesOf(SendLog) = ValueBytes /\ BytesOf(DownloadLog) = ValueBytes

-----------------------------------------------------------------------------
(* TerminalEmulator's entry with a go address: C13 *)

IsTermGo(e) ==
    e.phase \in {"term_go1", "term_go2"}

\* the exchanges of TerminalEmulator's entry, in order
TermGoLog ==
    SelectSeq(xlog, IsTermGo)

\* cmd is "G", the hexadecimal digits of A, and the terminator '#'
IsGoCommand(cmd, A) ==
    /\ Len(cmd) >= 3
    /\ cmd[1] = Asc("G")
    /\ cmd[Len(cmd)] = Asc("#")
    /\ \A p \in 2..(Len(cmd) - 1) : IsHexDigit(cmd[p])
    /\ HexAccum(SubSeq(cmd, 2, Len(cmd) - 1), Zero32) = A

\* C13: with a go address A, before the first console poll the target has
\* been sent the identify command and then the go command G<A>#, in this
\* order, each followed by exactly one Response capture
C13_GoCommandOnEntry ==
    (pc \in {"term_console", "term_drain", "term_exit"} /\ ParamAddrGo # << >>) =>
        /\ Len(TermGoLog) = 2
        /\ TermGoLog[1].phase = "term_go1" /\ TermGoLog[1].cmd = CmdIdentify
        /\ TermGoLog[2].phase = "term_go2" /\ IsGoCommand(TermGoLog[2].cmd, ValueAddrGo)

-----------------------------------------------------------------------------
(* Transfer ordering: C14 *)

\* the commands of log, one after the other
RECURSIVE CmdsOf(_)
CmdsOf(log) ==
    IF log = << >> THEN << >> ELSE Head(log).cmd \o CmdsOf(Tail(log))

\* the address field of a read or write command: the digits before the ','
AddrOf(cmd) ==
    HexAccum(SubSeq(cmd, 2, Before(cmd, Asc(","))), Zero32)

\* a < b as unsigned 32-bit numbers
Below(a, b) ==
    a.hi < b.hi \/ (a.hi = b.hi /\ a.lo < b.lo)

\* each command of log is at the address after the chunk before it, which is
\* a greater address
Ascending(log) ==
    \A i \in 1..(Len(log) - 1) :
        /\ AddrOf(log[i + 1].cmd) = Add32(AddrOf(log[i].cmd), WidthOf(log[i].cmd))
        /\ Below(AddrOf(log[i].cmd), AddrOf(log[i + 1].cmd))

\* C14: in download and in upload each command is followed by its Response
\* capture before the next command is sent, so that the bytes on the wire are
\* the commands of the captures in order, and each chunk's address is the
\* previous chunk's address plus its width and strictly greater than it, for
\* every 32-bit start address and count
C14_OrderedTransfer ==
    /\ pc \notin {"term_console", "term_drain", "term_exit"} => wire = CmdsOf(xlog)
    /\ DownloadLog # << >> => AddrOf(DownloadLog[1].cmd) = ValueAddrStart
    /\ SendLog # << >> => AddrOf(SendLog[1].cmd) = ValueAddrStart
    /\ Ascending(DownloadLog)
    /\ Ascending(SendLog)

-----------------------------------------------------------------------------
(* Responses without a marker: C15 *)

\* the burst b holds no "0x"
NoMarker(b) ==
    \A i \in 1..(Len(b) - 1) : ~(b[i] = Asc("0") /\ b[i + 1] = Asc("x"))

\* C15: a Response without a "0x" marker is not taken for the value zero:
\* the download appends no bytes to the image for a chunk whose Response is
\* not empty and has no marker
C15_NoMarkerIsNotZero ==
    \A i \in 1..Len(DownloadLog) :
        (DownloadLog[i].Response # << >> /\ NoMarker(DownloadLog[i].Response)) =>
            MemoryCount <= BytesOf(Take(DownloadLog, i - 1))

-----------------------------------------------------------------------------
(* Verify's precondition: C16 *)

\* the three lengths verify works with are one length, and not zero
LengthsAgree ==
    /\ ValueBytes # 0
    /\ Len(FileBuffer) = ValueBytes
    /\ MemoryCount = ValueBytes
    /\ Len(MemoryBuffer) = ValueBytes
    /\ BytesOf(DownloadLog) = ValueBytes

C16_Unequal ==
    /\ pc = "done"
    /\ FlagVerify
    /\ MemoryCount > 0
    /\ MemoryCount < ValueBytes
    /\ Len(FileBuffer) = ValueBytes

-----------------------------------------------------------------------------
(* Dump after a verify mismatch: C17 *)

\* the dump shows every byte of the image, in rows of 16
DumpedInFull ==
    /\ Len(dumpRows) = (MemoryCount + 15) \div 16
    /\ \A r \in 0..(Len(dumpRows) - 1) :
        /\ IsLabelOf(dumpRows[r + 1].label, Add32(ValueAddrStart, 16 * r))
        /\ \A i \in 0..15 : ShowsByte(dumpRows[r + 1].Template, r, i)

\* C17: with -v and -d, a download that succeeded and a verify that reported
\* a mismatch, the whole downloaded image is dumped all the same, and the run
\* ends with exit code 1
C17_DumpAfterMismatch ==
    (pc = "done" /\ FlagVerify /\ FlagDump /\ VerifyErrors # << >>) =>
        /\ MemoryCount = ValueBytes
        /\ MemoryCount >= 1
        /\ DumpedInFull
        /\ ~Success
        /\ exitCode = 1

\* a mismatch in an image of two rows, and the run is over
C17_Witness ==
    /\ pc = "done"
    /\ FlagVerify /\ FlagDump
    /\ VerifyErrors # << >>
    /\ MemoryCount = MaxDump
    /\ Len(dumpRows) >= 2
    /\ exitCode = 1

-----------------------------------------------------------------------------
(* Upload without validation: C18 *)

\* the value field of a write command: the digits between ',' and '#'
ValOf(cmd) ==
    HexAccum(SubSeq(cmd, Before(cmd, Asc(",")) + 2, Before(cmd, Asc("#"))), Zero32)

\* the bytes that the write commands of log carry, chunk after chunk
RECURSIVE Uploaded(_)
Uploaded(log) ==
    IF log = << >> THEN << >>
    ELSE LittleEndian(ValOf(Head(log).cmd), WidthOf(Head(log).cmd)) \o Uploaded(Tail(log))

\* command i of log is the write command of its chunk, at the start address
\* plus the bytes of the chunks before it
IsWriteOf(log, i) ==
    log[i].cmd = CmdWrite(Add32(ValueAddrStart, BytesOf(Take(log, i - 1))),
                          ValOf(log[i].cmd), WidthOf(log[i].cmd))

\* C18: whatever the target does, a target that never answers included, the
\* upload sends the write commands that cover bytes 0 .. n-1 of the file
\* image once each and in order, each value the little-endian packing of its
\* chunk, then ends, and the run is still successful
C18_UploadUnchecked ==
    /\ SendLog # << >> =>
        /\ Uploaded(SendLog) = Take(FileBuffer, BytesOf(SendLog))
        /\ \A i \in 1..Len(SendLog) : IsWriteOf(SendLog, i)
    /\ pc = "send_loop" =>
        /\ Success
        /\ Length = BytesOf(SendLog)
        /\ Length <= ValueBytes
    /\ (pc = "download" /\ FlagSend /\ (diag = << >> \/ SendLog # << >>)) =>
        /\ Success
        /\ diag = << >>
        /\ ValueBytes = Len(FileBuffer)
        /\ BytesOf(SendLog) = ValueBytes
        /\ wire = CmdsOf(xlog)

\* an upload of 5 bytes to a target that never answered is over
C18_Witness ==
    /\ pc = "download"
    /\ FlagSend /\ Success
    /\ tgt.mute
    /\ Len(SendLog) = 2
    /\ \A i \in 1..2 : SendLog[i].how = "silent" /\ SendLog[i].Response = << >>
    /\ Uploaded(SendLog) = FileBuffer
    /\ FileBuffer[1] # FileBuffer[2]

-----------------------------------------------------------------------------
(* TerminalEmulator's pass-through: C19 *)

\* the terminal's loop is running
InLoop ==
    pc \in {"term_console", "term_drain"}

\* this step reads a byte from the console
ConsoleRead ==
    conIn' # conIn

\* this step reads a byte from the target
TargetRead ==
    Len(rx') < Len(rx)

\* the byte the target gets for the console byte c
Forwarded(c) ==
    IF c = 13 THEN 35 ELSE c

\* a step of the loop: a console byte read goes to the target, remapped, as
\* the next byte on the wire, and nothing else is put on the wire; a target
\* byte read goes to the console as it is, as the next byte there, and the
\* console gets nothing else but the echo of a key; the console is read at
\* most once in a cycle, and before the target is drained
PassThrough ==
    InLoop =>
        /\ ConsoleRead =>
            /\ conIn # << >> /\ conIn' = Tail(conIn)
            /\ wire' = Append(wire, Forwarded(Head(conIn)))
            /\ rx' = rx
            /\ conOut' \in {conOut, Append(conOut, Forwarded(Head(conIn)))}
            /\ pc = "term_console"
            /\ cycle.read = << >> /\ cycle.drained = 0
        /\ TargetRead =>
            /\ rx' = Tail(rx)
            /\ conOut' = Append(conOut, Head(rx))
            /\ wire' = wire /\ conIn' = conIn
            /\ pc = "term_drain"
        /\ wire' # wire => ConsoleRead
        /\ conOut' # conOut => (ConsoleRead \/ TargetRead)

\* C19: every byte read from the console is written to the target once and
\* in the order read, 0x0d as '#' and the sentinels 0x1b and 0x03 as they
\* are; every byte read from the target is written to the console once,
\* unchanged and in the order read; in a cycle the console is serviced before
\* the target is drained
C19_PassThrough ==
    [][PassThrough]_vars

\* Enter and Escape were typed and are on the wire as '#' and 0x1b; the
\* target sent two bytes, an Escape among them, and the console shows them
C19_Witness ==
    /\ pc = "term_exit"
    /\ conIn = << >> /\ rx = << >>
    /\ Len(wire) >= 2
    /\ SubSeq(wire, Len(wire) - 1, Len(wire)) = << 35, 27 >>
    /\ tgt.sent = tgt.chatty /\ tgt.chatty >= 2
    /\ \E i \in 1..Len(conOut) : conOut[i] = 27
    /\ \E i \in 1..Len(conOut) : conOut[i] = 35

-----------------------------------------------------------------------------
(* The terminal against a target that keeps sending: C20 *)

\* the steps of a run that goes straight to the terminal
MainToTerminal ==
    \/ Main \/ OpenDevice \/ Hello \/ Version \/ Cpu \/ Flush \/ LoadFileStep
    \/ SendBegin \/ LoadMemBegin \/ VerifyBegin \/ Receive \/ DumpBegin \/ Go

\* the steps of sam9boot itself in such a run
Program ==
    \/ MainToTerminal
    \/ TermEnter \/ TermGo1 \/ TermGo2 \/ TermConsole \/ TermDrain \/ TermCycleEnd
    \/ TermExit \/ Exit

NextLive ==
    Program \/ TargetStreams

\* -i, with or without -g, every script of keystrokes
InitLive ==
    \E c \in TerminalCfgs, keys \in Words(Keys, MaxKeys) :
        InitAt("main", c, Memory(<< 37, 126 >>), keys, Sound, << >>)

\* sam9boot is one sequential process that takes its next step whenever it
\* has one; nothing is assumed of the target
SpecLive ==
    InitLive /\ [][NextLive]_vars /\ WF_vars(Program)

\* C20: whatever the target does, a target that keeps producing output
\* included, the drain of each cycle of the terminal's loop ends, so that the
\* console is polled again
C20_DrainEnds ==
    (pc = "term_drain") ~> (pc # "term_drain")

-----------------------------------------------------------------------------
(* Which reply a value is decoded from: C21 *)

\* the position of the first "0x" of the burst b, which holds one
MarkerPos(b) ==
    CHOOSE k \in 1..(Len(b) - 1) :
        /\ b[k] = Asc("0") /\ b[k + 1] = Asc("x")
        /\ \A j \in 1..(k - 1) : ~(b[j] = Asc("0") /\ b[j + 1] = Asc("x"))

\* the marker that the capture of the exchange e decoded lies in the bytes
\* that arrived after e's command was written, not in those left unread before
OwnReplyDecoded(e) ==
    ~NoMarker(e.Response) => MarkerPos(e.Response) > e.stale

\* C21: in a download the value unpacked for a chunk is decoded from bytes
\* the target sent in reply to that chunk's read command, never from bytes
\* left unread from an earlier exchange, however the reply bytes arrive
C21_OwnReplyDecoded ==
    \A i \in 1..Len(DownloadLog) : OwnReplyDecoded(DownloadLog[i])

-----------------------------------------------------------------------------
(* Go after a failure: C22 *)

\* the exchange e wrote a go command: main's, or TerminalEmulator's
IsGo(e) ==
    e.phase \in {"go", "term_go2"}

\* the exchanges that wrote 'G' and the go address
GoLog ==
    SelectSeq(xlog, IsGo)

\* an operation that was asked for has failed
SomeFailed ==
    ~Success \/ SelectSeq(diag, IsFailure) # << >>

\* C22: with a go address, no go command is written to the target once an
\* operation before it has failed, in a run without -i and in a run with -i
C22_GoGated ==
    (ParamAddrGo # << >> /\ SomeFailed) => GoLog = << >>

\* the same for the runs without -i only
GoGatedBatch ==
    (ParamAddrGo # << >> /\ SomeFailed /\ ~FlagInteractive) => GoLog = << >>

\* a run without -i has passed its go section after a failure
GoGatedBatch_Reached ==
    /\ pc = "done" /\ ParamAddrGo # << >> /\ ~Success /\ ~FlagInteractive
    /\ DeviceOpened

-----------------------------------------------------------------------------
(* The output file of receive: C23 *)

IsOpenForWrite(d) ==
    d.msg = "open for write"

\* receive has written the output file, or has tried to and could not open it
WriteAttempted ==
    outFile # << >> \/ SelectSeq(diag, IsOpenForWrite) # << >>

\* a failure of an operation ahead of receive
IsEarlierFailure(d) ==
    IsFailure(d) /\ ~IsOpenForWrite(d)

\* main is past its receive section
ReceiveOver ==
    pc \in {"dump", "dump_loop", "go", "term", "term_go1", "term_go2", "term_console",
            "term_drain", "term_exit", "exit", "done"}

C23_Partial ==
    /\ pc = "done"
    /\ FlagReceive
    /\ MemoryCount = 4 /\ ValueBytes = 5
    /\ outFile = << >>

====
